---- MODULE Spec2Model ----
(***************************************************************************)
(* Sign-In-With-Ethereum auth adapter for Parse Server (src/src/index.ts). *)
(*                                                                         *)
(* The adapter is stateless; its only shared mutable state is the Nonce    *)
(* table of the Parse database.  Every handler is an async function: it    *)
(* runs synchronously up to an await, and the awaited call takes effect    *)
(* and resumes the handler in a later step.  validateAuthData is split at  *)
(* the awaits of its two store calls (query.first, nonceObject.destroy);   *)
(* the verifier reads no shared state and its await is part of the first   *)
(* step.  challenge makes one store call (nonceObject.save) and is one     *)
(* action.  cleanupNonceTable is split at its find and its destroyAll.     *)
(* Time is the value of `new Date()`, a natural number of ticks.           *)
(* validateOptions is a pure method; the configuration it is given is a    *)
(* JavaScript object whose fields may hold a value of any type.            *)
(***************************************************************************)
EXTENDS Integers, FiniteSets

\* ------------------------------------------------------------------ bounds
MaxValidations == 2
MaxChallenges == 1
MaxTime == 1
MaxValidity == 1

Validations == 1..MaxValidations
Challenges == 1..MaxChallenges
\* generateNonce() never repeats a value: nonces are numbered in the order
\* of generation.  A caller may also claim a nonce that was never generated.
\* Invocations are numbered in the order in which they start.
NonceValues == 1..(MaxChallenges + 1)

\* ------------------------------------------------------- program constants
NONCE_TABLE_NAME == "Nonce"
\* SiweErrorType members of the siwe package, as used by the catch block.
EXPIRED_MESSAGE == "Expired message."
INVALID_SIGNATURE == "Signature does not match address of the message."
\* Any other value a rejected promise may carry (a nonce mismatch, a network
\* failure, an object wrapping a SiweError, a Parse.Error of the store, ...).
OTHER_ERROR == "other error"
VALID == "valid"

\* Messages of the Parse.Error thrown by validateAuthData.
InvalidDomain == "Invalid domain"
InvalidStatement == "Invalid statement"
InvalidVersion == "Invalid version"
MessageExpired == "Message expired"
InvalidSignature == "Invalid signature"
UnknownError == "Auth failed unknown error"
\* new SiweMessage(message) throws on a string that is no SIWE message; that
\* error is raised outside the try block and reaches the caller as it is.
ParseFailure == "SiweMessage parse error"
\* new SiweMessage({...}) throws on fields that make no valid message; that
\* error leaves challenge as it is.
ComposeFailure == "SiweMessage compose error"
Success == "success"
None == "none"

Addresses == {"0xA", "0xB"}
Domains == {"example.com", "evil.com"}
Statements == {"Sign in", "Sign away"}
Versions == {"1", "2"}

VARIABLES
  now,        \* the clock read by new Date()
  options,    \* SiweOptions the adapter was initialised with
  store,      \* rows of the Nonce table
  nextId,     \* next objectId / nonce of generateNonce
  val,        \* validateAuthData invocations
  chal,       \* challenge invocations
  sweep,      \* the cleanupNonceTable job
  saved,      \* history: nonces for which a row was ever saved
  consumed,   \* history: objectIds destroyed by a validation
  optionsCheck  \* history: the last validateOptions call and what it threw

vars == <<now, options, store, nextId, val, chal, sweep, saved, consumed,
          optionsCheck>>

\* ------------------------------------------------------------ pure helpers

getExpirationTimeWithoutValidity(currentTime, messageValidityInMs) ==
  currentTime

\* getExpirationTime: new Date(currentTime.getTime() + messageValidityInMs)
getExpirationTime(currentTime, messageValidityInMs) ==
  currentTime + messageValidityInMs

BindingCheckStatementFirst(SIWEObject, opts) ==
  IF SIWEObject.statement # opts.statement THEN InvalidStatement
  ELSE IF SIWEObject.domain # opts.domain THEN InvalidDomain
  ELSE IF SIWEObject.version # opts.version THEN InvalidVersion
  ELSE None

\* The three comparisons that follow new SiweMessage(message).
BindingCheck(SIWEObject, opts) ==
  IF SIWEObject.domain # opts.domain THEN InvalidDomain
  ELSE IF SIWEObject.statement # opts.statement THEN InvalidStatement
  ELSE IF SIWEObject.version # opts.version THEN InvalidVersion
  ELSE None

MapErrorExpiredAsInvalidSignature(error) ==
  IF error = EXPIRED_MESSAGE \/ error = INVALID_SIGNATURE
  THEN InvalidSignature
  ELSE UnknownError

MapErrorSwallowsOtherErrors(error) ==
  IF error = EXPIRED_MESSAGE THEN MessageExpired
  ELSE IF error = INVALID_SIGNATURE THEN InvalidSignature
  ELSE Success

MapErrorWithoutSignatureCase(error) ==
  IF error = EXPIRED_MESSAGE THEN MessageExpired ELSE UnknownError

\* The switch of the catch block.
MapError(error) ==
  IF error = EXPIRED_MESSAGE THEN MessageExpired
  ELSE IF error = INVALID_SIGNATURE THEN InvalidSignature
  ELSE UnknownError

QueryMatchesAnyNonce(row, nonce, date) ==
  row.expirationTime > date

QueryMatchesInclusive(row, nonce, date) ==
  row.nonce = nonce /\ row.expirationTime >= date

\* query.equalTo("nonce", nonce); query.greaterThan("expirationTime", date)
QueryMatches(row, nonce, date) ==
  row.nonce = nonce /\ row.expirationTime > date

SweepMatchesUnexpired(row, date) ==
  row.expirationTime > date

\* query.lessThan("expirationTime", date) of cleanupNonceTable
SweepMatches(row, date) ==
  row.expirationTime < date

\* What SIWEObject.verify({signature, nonce}) may resolve to or reject with.
\* It resolves only for a signature made by the message's address over a
\* message carrying the expected nonce; it reports an invalid signature only
\* for a signature that is not; an expired message and any other failure
\* depend on the message's own time fields and on the environment.
VerifyResults(authData) ==
  (IF authData.signature = authData.message.address
      /\ authData.message.nonce = authData.nonce
   THEN {VALID} ELSE {})
  \cup (IF authData.signature # authData.message.address
        THEN {INVALID_SIGNATURE} ELSE {})
  \cup {EXPIRED_MESSAGE, OTHER_ERROR}

\* ------------------------------------------------------------------ inputs

Messages ==
  [wellFormed : BOOLEAN, domain : Domains, statement : Statements,
   version : Versions, nonce : NonceValues, address : Addresses]

\* signature: the address whose key made the signature over the message
AuthDatas ==
  [message : Messages, signature : Addresses, nonce : NonceValues,
   address : Addresses]

GoodMessage(n, a) ==
  [wellFormed |-> TRUE, domain |-> "example.com", statement |-> "Sign in",
   version |-> "1", nonce |-> n, address |-> a]

NoAuthData ==
  [message |-> GoodMessage(1, "0xA"), signature |-> "0xA", nonce |-> 1,
   address |-> "0xA"]

\* pc, authData, date (of the query), nonceObject (objectId of the row found)
\* and outcome are the invocation's state; the other fields are history:
\* whether verify was called and how it settled, the state of the claimed
\* nonce when query.first ran, which store call failed, and whether the same
\* proof had been validated (and accepted) before this invocation started.
IdleValidation ==
  [pc |-> "idle", authData |-> NoAuthData, verifyCalled |-> FALSE,
   verifyResult |-> None, date |-> 0, nonceObject |-> 0, situation |-> None,
   storeError |-> None, outcome |-> None, replayOf |-> None]

\* challengeData.  chainId is a JavaScript number: an integer or not.
ChainIds ==
  {[isInteger |-> TRUE, value |-> 1], [isInteger |-> TRUE, value |-> 0],
   [isInteger |-> TRUE, value |-> -1], [isInteger |-> FALSE, value |-> 1]}
RequestAddresses == {"0xA", "not an address"}
Uris == {"", "https://example.com/login"}
\* "siwe-message" is the default the README documents; "absent" is a
\* request without the field.
ResponseTypes == {"message", "nonce-expiration", "siwe-message", "absent"}

ChallengeDatas ==
  [responseType : ResponseTypes, address : RequestAddresses, uri : Uris,
   chainId : ChainIds]

GoodChainId == [isInteger |-> TRUE, value |-> 1]

NoChallengeData ==
  [responseType |-> "absent", address |-> "0xA", uri |-> "",
   chainId |-> GoodChainId]

NoResponse ==
  [kind |-> None, nonce |-> 0, expirationTime |-> 0, message |-> None]

\* issuedAt is history: the clock when challenge ran.
IdleChallenge ==
  [pc |-> "idle", challengeData |-> NoChallengeData, nonce |-> 0,
   issuedAt |-> 0, expirationTime |-> 0, response |-> NoResponse,
   error |-> None]

InitOptions(pr, ms) ==
  [domain |-> "example.com", statement |-> "Sign in", version |-> "1",
   preventReplay |-> pr, messageValidityInMs |-> ms]

\* --------------------------------------------------------- configuration

\* JavaScript values an option field may hold.
Str(s) ==
  [typeof |-> "string", string |-> s, number |-> 0, isNaN |-> FALSE,
   boolean |-> FALSE]
Num(n) ==
  [typeof |-> "number", string |-> "", number |-> n, isNaN |-> FALSE,
   boolean |-> FALSE]
NaN ==
  [typeof |-> "number", string |-> "", number |-> 0, isNaN |-> TRUE,
   boolean |-> FALSE]
Bool(b) ==
  [typeof |-> "boolean", string |-> "", number |-> 0, isNaN |-> FALSE,
   boolean |-> b]
Undefined ==
  [typeof |-> "undefined", string |-> "", number |-> 0, isNaN |-> FALSE,
   boolean |-> FALSE]

\* !x
Falsy(x) ==
  \/ x.typeof = "undefined"
  \/ x.typeof = "string" /\ x.string = ""
  \/ x.typeof = "number" /\ (x.isNaN \/ x.number = 0)
  \/ x.typeof = "boolean" /\ ~x.boolean

\* x <= 0 for a number x: every comparison with NaN is false
LessOrEqualZero(x) == ~x.isNaN /\ x.number <= 0

\* The SiweOptions object as validateOptions sees it.
SiweOptionsObject(opts) ==
  [domain |-> Str(opts.domain), statement |-> Str(opts.statement),
   version |-> Str(opts.version), preventReplay |-> Bool(opts.preventReplay),
   messageValidityInMs |-> Num(opts.messageValidityInMs)]

\* initializeSiweAdapter(options): { module: new SiweAdapter(), options }
initializeSiweAdapter(opts) ==
  [hasOptions |-> TRUE, options |-> SiweOptionsObject(opts),
   module |-> "SiweAdapter"]

\* validateOptions(options): the message of the Error it throws, or None
\* when it returns.
validateOptions(adapterOptions) ==
  LET siweOptions == adapterOptions.options
  IN IF ~adapterOptions.hasOptions THEN "Options object is required"
     ELSE IF Falsy(siweOptions.domain) \/ siweOptions.domain.typeof # "string"
     THEN "Invalid or missing domain"
     ELSE IF Falsy(siweOptions.statement)
             \/ siweOptions.statement.typeof # "string"
     THEN "Invalid or missing statement"
     ELSE IF Falsy(siweOptions.version)
             \/ siweOptions.version.typeof # "string"
     THEN "Invalid or missing version"
     ELSE IF siweOptions.preventReplay.typeof # "boolean"
     THEN "Invalid or missing preventReplay flag"
     ELSE IF \/ siweOptions.messageValidityInMs.typeof # "number"
             \/ LessOrEqualZero(siweOptions.messageValidityInMs)
     THEN "Invalid or missing message validity time"
     ELSE IF adapterOptions.module # "SiweAdapter"
     THEN "Module must be an instance of SiweAdapter"
     ELSE None

\* The state after initializeSiweAdapter(opts): an empty Nonce table, no
\* request received yet.
InitFor(opts, slots) ==
  /\ now = 0
  /\ options = opts
  /\ store = {}
  /\ nextId = 1
  /\ val = [v \in Validations |-> IdleValidation]
  /\ chal = [c \in slots |-> IdleChallenge]
  /\ sweep = [pc |-> "idle", expiredNonces |-> {}]
  /\ saved = {}
  /\ consumed = {}
  /\ optionsCheck = [called |-> FALSE,
                     adapterOptions |-> initializeSiweAdapter(opts),
                     error |-> None]

InitWith(opts) == InitFor(opts, Challenges)

Init ==
  \E pr \in BOOLEAN, ms \in 1..MaxValidity : InitWith(InitOptions(pr, ms))

\* ------------------------------------------------------------- challenge

\* isAddress of viem
isAddress(address) == address \in Addresses

RequestErrorForEveryType(challengeData) ==
  IF ~challengeData.chainId.isInteger \/ challengeData.chainId.value <= 0
  THEN "Invalid chainId"
  ELSE IF ~isAddress(challengeData.address)
  THEN "Invalid Ethereum address"
  ELSE IF challengeData.uri = ""
  THEN "URI is required"
  ELSE None

RequestErrorAddressFirst(challengeData) ==
  IF challengeData.responseType = "message"
  THEN IF ~isAddress(challengeData.address)
       THEN "Invalid Ethereum address"
       ELSE IF ~challengeData.chainId.isInteger
               \/ challengeData.chainId.value <= 0
       THEN "Invalid chainId"
       ELSE IF challengeData.uri = ""
       THEN "URI is required"
       ELSE None
  ELSE None

\* Request validation of the "message" response type.
RequestError(challengeData) ==
  IF challengeData.responseType = "message"
  THEN IF ~challengeData.chainId.isInteger \/ challengeData.chainId.value <= 0
       THEN "Invalid chainId"
       ELSE IF ~isAddress(challengeData.address)
       THEN "Invalid Ethereum address"
       ELSE IF challengeData.uri = ""
       THEN "URI is required"
       ELSE None
  ELSE None

\* Date.prototype.toISOString: a text of the instant, to the millisecond
toISOString(date) == [iso |-> date]

prepareMessageWithoutStatement(opts, challengeData, nonce, expirationTime) ==
  [header |-> opts.domain, address |-> challengeData.address,
   statement |-> <<>>, uri |-> challengeData.uri, version |-> opts.version,
   chainId |-> challengeData.chainId, nonce |-> nonce,
   expirationTime |-> toISOString(expirationTime)]

\* new SiweMessage({...}).prepareMessage(): the text of the message, line by
\* line.  The header line carries the domain; the statement line is left out
\* when the statement is empty.
prepareMessage(opts, challengeData, nonce, expirationTime) ==
  [header |-> opts.domain, address |-> challengeData.address,
   statement |-> IF opts.statement = "" THEN <<>> ELSE <<opts.statement>>,
   uri |-> challengeData.uri, version |-> opts.version,
   chainId |-> challengeData.chainId, nonce |-> nonce,
   expirationTime |-> toISOString(expirationTime)]

\* The value of a field the message text does not carry.
UndefinedField == "undefined"

\* new SiweMessage(message) for the text of a composed message: the fields
\* validateAuthData reads, taken from the lines of the text.
ParseMessage(text) ==
  [wellFormed |-> TRUE, domain |-> text.header,
   statement |-> IF text.statement = <<>> THEN UndefinedField
                 ELSE text.statement[1],
   version |-> text.version, nonce |-> text.nonce, address |-> text.address]

\* What new SiweMessage({domain, address, statement, uri, version, chainId,
\* nonce, expirationTime}) throws.  The constructor of the siwe package
\* validates the message it is given: a non-empty domain, an EIP-55 address,
\* a URI, version "1" (and the nonce and the time, which challenge always
\* supplies well-formed).  It does not look at chainId.
ComposeError(opts, challengeData) ==
  IF challengeData.responseType = "nonce-expiration" THEN None
  ELSE IF \/ opts.domain = ""
          \/ ~isAddress(challengeData.address)
          \/ challengeData.uri = ""
          \/ opts.version # "1"
  THEN ComposeFailure
  ELSE None

\* The value challenge returns.
ChallengeResponse(opts, challengeData, nonce, expirationTime) ==
  IF challengeData.responseType = "nonce-expiration"
  THEN [kind |-> "nonce-expiration", nonce |-> nonce,
        expirationTime |-> toISOString(expirationTime), message |-> None]
  ELSE [kind |-> "message", nonce |-> nonce, expirationTime |-> 0,
        message |-> prepareMessage(opts, challengeData, nonce, expirationTime)]

SavesNonceAlways(requestError, opts) == requestError = None

SavesNonceBeforeValidation(requestError, opts) == opts.preventReplay

\* if (preventReplay) { ... await nonceObject.save(...) }: reached only past
\* the request validation, whose errors are thrown before it.
SavesNonce(requestError, opts) ==
  requestError = None /\ opts.preventReplay

ChallengeErrorSaveSwallowed(requestError, saves, ok) == requestError

\* What challenge throws: the request's error, or the rejection of
\* nonceObject.save.
ChallengeError(requestError, saves, ok) ==
  IF requestError # None THEN requestError
  ELSE IF saves /\ ~ok THEN OTHER_ERROR
  ELSE None

generateNonceRepeating(next) == 1

\* generateNonce() of the siwe package: a random alphanumeric string, a
\* value that no earlier call returned.
generateNonce(next) == next

\* challenge(challengeData, authData, {options}): generateNonce,
\* getExpirationTime, the request validation, with preventReplay the save of
\* the row (the save rejects when the store fails, and the rejection leaves
\* challenge), and the response; the message is composed after the save.
challenge(c, challengeData, ok) ==
  /\ chal[c].pc = "idle"
  /\ \A d \in Challenges : d < c => chal[d].pc # "idle"
  /\ LET nonce == generateNonce(nextId)
         expirationTime ==
           getExpirationTime(now, options.messageValidityInMs)
         base == [chal[c] EXCEPT !.pc = "done",
                                 !.challengeData = challengeData,
                                 !.issuedAt = now,
                                 !.nonce = nonce,
                                 !.expirationTime = expirationTime]
         saves == SavesNonce(RequestError(challengeData), options)
         thrown == ChallengeError(RequestError(challengeData), saves, ok)
         error == IF thrown # None THEN thrown
                  ELSE ComposeError(options, challengeData)
     IN /\ nextId' = nextId + 1
        /\ saves \/ ok    \* `ok` is the save's result: read only when it runs
        /\ chal' = [chal EXCEPT ![c] =
             IF error # None
             THEN [base EXCEPT !.error = error]
             ELSE [base EXCEPT !.response =
                     ChallengeResponse(options, challengeData, nonce,
                                       expirationTime)]]
        /\ IF saves /\ ok
           THEN /\ store' = store \cup
                     {[objectId |-> nextId, nonce |-> nonce,
                       expirationTime |-> expirationTime]}
                /\ saved' = saved \cup {nonce}
           ELSE UNCHANGED <<store, saved>>
  /\ UNCHANGED <<now, options, val, sweep, consumed,
               optionsCheck>>

\* ------------------------------------------------------- validateAuthData

\* The rows query.first may return.
FirstResults(rows, nonce, date) ==
  {row \in rows : QueryMatches(row, nonce, date)}

LookupErrorByCause(rows, nonce, date) ==
  IF FirstResults(rows, nonce, date) # {} THEN None
  ELSE IF \E row \in rows : row.nonce = nonce THEN EXPIRED_MESSAGE
  ELSE OTHER_ERROR

\* if (!nonceObject) throw SiweErrorType.EXPIRED_MESSAGE
LookupError(rows, nonce, date) ==
  IF FirstResults(rows, nonce, date) = {} THEN EXPIRED_MESSAGE ELSE None

\* History: the state of `nonce` in the store for a query dated `date`.
Situation(nonce, date) ==
  IF nonce \notin saved THEN "never issued"
  ELSE IF nonce \in consumed THEN "consumed"
  ELSE IF \E row \in store : row.nonce = nonce
  THEN LET row == CHOOSE r \in store : r.nonce = nonce
       IN IF row.expirationTime > date THEN "live"
          ELSE IF row.expirationTime = date THEN "expires now"
          ELSE "expired"
  ELSE "swept"

\* History: whether the proof was validated before, and accepted.
ReplayOf(authData) ==
  IF \E w \in Validations : /\ val[w].pc = "done"
                            /\ val[w].authData = authData
                            /\ val[w].outcome = Success
  THEN "accepted"
  ELSE IF \E w \in Validations : /\ val[w].pc = "done"
                                 /\ val[w].authData = authData
  THEN "rejected"
  ELSE None

VerifyInvokedBeforeBinding(SIWEObject, opts) ==
  SIWEObject.wellFormed

\* SIWEObject.verify is reached only past new SiweMessage(message) and the
\* three binding comparisons, each of which throws.
VerifyInvoked(SIWEObject, opts) ==
  SIWEObject.wellFormed /\ BindingCheck(SIWEObject, opts) = None

\* validateAuthData up to the await of query.first: new SiweMessage(message),
\* the binding comparisons, SIWEObject.verify (which settles with `result`;
\* a rejection goes to the catch block) and, with preventReplay, the query,
\* whose date is read here.
ValidateStart(v, authData, result) ==
  /\ val[v].pc = "idle"
  /\ \A w \in Validations : w < v => val[w].pc # "idle"
  /\ LET SIWEObject == authData.message
         base == [val[v] EXCEPT !.authData = authData,
                    !.replayOf = ReplayOf(authData),
                    !.verifyCalled = VerifyInvoked(SIWEObject, options)]
         verified == [base EXCEPT !.verifyResult = result]
     IN IF ~SIWEObject.wellFormed
        THEN /\ result = None
             /\ val' = [val EXCEPT ![v] =
                  [base EXCEPT !.pc = "done", !.outcome = ParseFailure]]
        ELSE IF BindingCheck(SIWEObject, options) # None
        THEN /\ result = None
             /\ val' = [val EXCEPT ![v] =
                  [base EXCEPT !.pc = "done",
                               !.outcome = BindingCheck(SIWEObject, options)]]
        ELSE /\ result \in VerifyResults(authData)
             /\ val' = [val EXCEPT ![v] =
                  IF result # VALID
                  THEN [verified EXCEPT !.pc = "done",
                                        !.outcome = MapError(result)]
                  ELSE IF ~options.preventReplay
                  THEN [verified EXCEPT !.pc = "done", !.outcome = Success]
                  ELSE [verified EXCEPT !.pc = "lookup", !.date = now]]
  /\ UNCHANGED <<now, options, store, nextId, chal, sweep, saved, consumed,
               optionsCheck>>

\* await query.first(...) settles: the store fails, or finds no row (the
\* handler throws EXPIRED_MESSAGE), or returns a row and the handler calls
\* nonceObject.destroy.
ValidateLookup(v, ok) ==
  /\ val[v].pc = "lookup"
  /\ LET nonce == val[v].authData.nonce
         date == val[v].date
         base == [val[v] EXCEPT !.date = 0,
                                !.situation = Situation(nonce, date)]
     IN IF ~ok
        THEN val' = [val EXCEPT ![v] =
               [base EXCEPT !.pc = "done", !.storeError = "first",
                            !.outcome = MapError(OTHER_ERROR)]]
        ELSE IF LookupError(store, nonce, date) # None
        THEN val' = [val EXCEPT ![v] =
               [base EXCEPT !.pc = "done", !.outcome =
                  MapError(LookupError(store, nonce, date))]]
        ELSE \E row \in FirstResults(store, nonce, date) :
               val' = [val EXCEPT ![v] =
                 [base EXCEPT !.pc = "destroy",
                              !.nonceObject = row.objectId]]
  /\ UNCHANGED <<now, options, store, nextId, chal, sweep, saved, consumed,
               optionsCheck>>

DestroyKeepsRow(rows, objectId) == rows

\* The table after nonceObject.destroy has removed its row.
Destroy(rows, objectId) == {row \in rows : row.objectId # objectId}

\* await nonceObject.destroy(...) settles.  It removes the row and resolves,
\* or rejects (the store fails).  For a row that another call has removed
\* in the meantime the store either rejects (object not found) or resolves.
ValidateDestroy(v, ok) ==
  /\ val[v].pc = "destroy"
  /\ IF ok
     THEN /\ store' = Destroy(store, val[v].nonceObject)
          /\ consumed' = consumed \cup {val[v].nonceObject}
          /\ val' = [val EXCEPT ![v].pc = "done", ![v].nonceObject = 0,
                                ![v].outcome = Success]
     ELSE /\ val' = [val EXCEPT ![v].pc = "done", ![v].nonceObject = 0,
                                ![v].storeError =
                                   IF \E row \in store :
                                        row.objectId = val[v].nonceObject
                                   THEN "destroy" ELSE "object not found",
                                ![v].outcome = MapError(OTHER_ERROR)]
          /\ UNCHANGED <<store, consumed>>
  /\ UNCHANGED <<now, options, nextId, chal, sweep, saved,
               optionsCheck>>

\* ------------------------------------------------------ cleanupNonceTable

\* The query date is read and query.find returns the rows older than it.
SweepFind ==
  /\ sweep.pc = "idle"
  /\ sweep' = [pc |-> "destroyAll",
               expiredNonces |-> {row \in store : SweepMatches(row, now)}]
  /\ UNCHANGED <<now, options, store, nextId, val, chal, saved, consumed,
               optionsCheck>>

\* Parse.Object.destroyAll(expiredNonces) removes the rows still present,
\* or the store fails.
SweepDestroyAll(ok) ==
  /\ sweep.pc = "destroyAll"
  /\ store' = IF ok THEN store \ sweep.expiredNonces ELSE store
  /\ sweep' = [pc |-> "idle", expiredNonces |-> {}]
  /\ UNCHANGED <<now, options, nextId, val, chal, saved, consumed,
               optionsCheck>>

\* ------------------------------------------------------------------ time

\* The clock advances, up to `limit`.
TickUntil(limit) ==
  /\ now < limit
  /\ now' = now + 1
  /\ UNCHANGED <<options, store, nextId, val, chal, sweep, saved, consumed,
               optionsCheck>>

Tick == TickUntil(MaxTime)

\* ------------------------------------------------------- specifications

\* Proofs of the replay scenarios: a well-formed message bound to the
\* configuration and signed by its address, for any nonce.
ReplayAuthDatas ==
  {[message |-> GoodMessage(n, "0xA"), signature |-> "0xA", nonce |-> n,
    address |-> "0xA"] : n \in NonceValues}

\* Requests of the replay scenarios: a valid request of either shape.
ReplayChallengeDatas ==
  {[responseType |-> t, address |-> "0xA", uri |-> "https://example.com/login",
    chainId |-> GoodChainId] : t \in {"message", "nonce-expiration"}}

\* Nonces a caller can present: those generated so far, and one that
\* generateNonce never returns (its values cannot be guessed in advance).
KnownNonces == {n \in NonceValues : n < nextId \/ n = MaxChallenges + 1}

VerifyOutcomes == {None, VALID, EXPIRED_MESSAGE, INVALID_SIGNATURE, OTHER_ERROR}

Next ==
  \/ \E v \in Validations :
       /\ val[v].pc = "idle"
       /\ \E authData \in ReplayAuthDatas, result \in VerifyOutcomes :
            /\ authData.nonce \in KnownNonces
            /\ ValidateStart(v, authData, result)
  \/ \E v \in Validations, ok \in BOOLEAN : ValidateLookup(v, ok)
  \/ \E v \in Validations, ok \in BOOLEAN : ValidateDestroy(v, ok)
  \/ \E c \in Challenges, challengeData \in ReplayChallengeDatas,
        ok \in BOOLEAN : challenge(c, challengeData, ok)
  \/ Tick

\* Challenges and validations, without the periodic cleanupNonceTable job.
Spec == Init /\ [][Next]_vars

\* Challenges and validations with the cleanupNonceTable job running.
\* The clock of the sweep scenarios runs until every row issued by MaxTime
\* is older than it: the sweep takes a row only when the clock has passed
\* its expiration.
SweepHorizon == MaxTime + MaxValidity + 1

NextSweep ==
  \/ /\ val[1].pc = "idle"
     /\ \E authData \in ReplayAuthDatas, result \in VerifyOutcomes :
          /\ authData.nonce \in KnownNonces
          /\ ValidateStart(1, authData, result)
  \/ \E ok \in BOOLEAN : ValidateLookup(1, ok)
  \/ \E ok \in BOOLEAN : ValidateDestroy(1, ok)
  \/ /\ now <= MaxTime
     /\ \E c \in Challenges, challengeData \in ReplayChallengeDatas,
           ok \in BOOLEAN : challenge(c, challengeData, ok)
  \/ SweepFind
  \/ \E ok \in BOOLEAN : SweepDestroyAll(ok)
  \/ TickUntil(SweepHorizon)

\* Challenges (issued until MaxTime) and a validation with the
\* cleanupNonceTable job running.
SpecSweep == Init /\ [][NextSweep]_vars

\* The same, when time advances and the job keeps being run and keeps
\* getting through to the store: the clock is not stopped, a job that can
\* start does start, and its destroyAll does not fail forever.
SpecSweepFair ==
  /\ SpecSweep
  /\ WF_vars(TickUntil(SweepHorizon))
  /\ WF_vars(SweepFind)
  /\ SF_vars(SweepDestroyAll(TRUE))

\* The table scenarios issue one challenge more than the others, so that
\* rows of two challenges are in the table together.
StoreChallenges == 1..(MaxChallenges + 1)

InitStore ==
  \E pr \in BOOLEAN, ms \in 1..MaxValidity :
    InitFor(InitOptions(pr, ms), StoreChallenges)

NextStore ==
  \/ /\ val[1].pc = "idle"
     /\ \E authData \in ReplayAuthDatas, result \in VerifyOutcomes :
          /\ authData.nonce < nextId
          /\ ValidateStart(1, authData, result)
  \/ \E ok \in BOOLEAN : ValidateLookup(1, ok)
  \/ \E ok \in BOOLEAN : ValidateDestroy(1, ok)
  \/ \E c \in StoreChallenges, challengeData \in ReplayChallengeDatas,
        ok \in BOOLEAN : challenge(c, challengeData, ok)
  \/ SweepFind
  \/ \E ok \in BOOLEAN : SweepDestroyAll(ok)
  \/ TickUntil(SweepHorizon)

\* The Nonce table under challenges, a validation of an issued nonce and
\* the cleanupNonceTable job.
SpecStore == InitStore /\ [][NextStore]_vars

\* Proofs that validateAuthData rejects before it reaches the table, and
\* the valid one: the message of nonce n with one binding field wrong or
\* none, signed by its address or by another key.
RejectedMessages(n) ==
  {GoodMessage(n, "0xA"),
   [GoodMessage(n, "0xA") EXCEPT !.domain = "evil.com"],
   [GoodMessage(n, "0xA") EXCEPT !.statement = "Sign away"],
   [GoodMessage(n, "0xA") EXCEPT !.version = "2"]}

RejectedAuthDatas ==
  {[message |-> m, signature |-> a, nonce |-> n, address |-> "0xA"] :
     n \in NonceValues, m \in UNION {RejectedMessages(k) : k \in NonceValues},
     a \in Addresses}

\* The first call presents any of these proofs, the second one a valid
\* proof.
NextReject ==
  \/ /\ val[1].pc = "idle"
     /\ \E authData \in RejectedAuthDatas, result \in VerifyOutcomes :
          /\ authData.nonce \in KnownNonces
          /\ authData.message.nonce = authData.nonce
          /\ ValidateStart(1, authData, result)
  \/ /\ val[2].pc = "idle"
     /\ \E authData \in ReplayAuthDatas, result \in VerifyOutcomes :
          /\ authData.nonce \in KnownNonces
          /\ ValidateStart(2, authData, result)
  \/ \E v \in {1, 2}, ok \in BOOLEAN : ValidateLookup(v, ok)
  \/ \E v \in {1, 2}, ok \in BOOLEAN : ValidateDestroy(v, ok)
  \/ \E c \in Challenges, challengeData \in ReplayChallengeDatas,
        ok \in BOOLEAN : challenge(c, challengeData, ok)
  \/ Tick

\* A validation of a proof with a wrong binding field or a wrong signature,
\* then a validation of a valid proof.
SpecReject == Init /\ [][NextReject]_vars

\* A single validation over the whole proof space: every binding field right
\* or wrong, a message that does not parse, a signature by the message's
\* address or by another key, a claimed nonce and a claimed address that
\* agree with the message or not.
ProofMessages ==
  {[wellFormed |-> wf, domain |-> d, statement |-> st, version |-> ve,
    nonce |-> n, address |-> "0xA"] :
     wf \in BOOLEAN, d \in Domains, st \in Statements, ve \in Versions,
     n \in {1, MaxChallenges + 1}}

ProofAuthDatas ==
  [message : ProofMessages, signature : Addresses,
   nonce : {1, MaxChallenges + 1}, address : Addresses]

NextProof ==
  \/ /\ val[1].pc = "idle"
     /\ \E authData \in ProofAuthDatas, result \in VerifyOutcomes :
          /\ authData.nonce \in KnownNonces
          /\ authData.message.nonce \in KnownNonces
          /\ ValidateStart(1, authData, result)
  \/ \E ok \in BOOLEAN : ValidateLookup(1, ok)
  \/ \E ok \in BOOLEAN : ValidateDestroy(1, ok)
  \/ \E c \in Challenges, challengeData \in ReplayChallengeDatas,
        ok \in BOOLEAN : challenge(c, challengeData, ok)
  \/ Tick

SpecProof == Init /\ [][NextProof]_vars

NextChallenge ==
  \/ \E c \in Challenges, challengeData \in ChallengeDatas, ok \in BOOLEAN :
       challenge(c, challengeData, ok)
  \/ Tick

\* Challenges over the whole request space: every responseType, chainId,
\* address and uri, valid or not.
SpecChallenge == Init /\ [][NextChallenge]_vars

\* Proofs made from a challenge's response: the message challenge returned,
\* signed by the address of the request or by another key, with the nonce
\* of the response.
RoundTripAuthDatas ==
  {[message |-> ParseMessage(chal[c].response.message), signature |-> a,
    nonce |-> chal[c].response.nonce, address |-> "0xA"] :
     c \in {d \in Challenges : chal[d].response.kind = "message"},
     a \in Addresses}

NextRoundTrip ==
  \/ \E v \in Validations :
       /\ val[v].pc = "idle"
       /\ \E authData \in RoundTripAuthDatas, result \in VerifyOutcomes :
            ValidateStart(v, authData, result)
  \/ \E v \in Validations, ok \in BOOLEAN : ValidateLookup(v, ok)
  \/ \E v \in Validations, ok \in BOOLEAN : ValidateDestroy(v, ok)
  \/ \E c \in Challenges, challengeData \in ReplayChallengeDatas,
        ok \in BOOLEAN : challenge(c, challengeData, ok)
  \/ Tick

\* A challenge, then validations of the message it returned.
SpecRoundTrip == Init /\ [][NextRoundTrip]_vars

\* Configurations initializeSiweAdapter accepts: any value of the declared
\* type of each field.
SiweOptionsValues ==
  [domain : {"example.com", ""}, statement : {"Sign in", ""},
   version : {"1", ""}, preventReplay : BOOLEAN,
   messageValidityInMs : (-1)..MaxValidity]

InitAdapter == \E opts \in SiweOptionsValues : InitWith(opts)

NextAdapter ==
  \/ /\ val[1].pc = "idle"
     /\ \E authData \in ReplayAuthDatas, result \in VerifyOutcomes :
          /\ authData.nonce \in KnownNonces
          /\ ValidateStart(1, authData, result)
  \/ \E ok \in BOOLEAN : ValidateLookup(1, ok)
  \/ \E ok \in BOOLEAN : ValidateDestroy(1, ok)
  \/ \E c \in Challenges, challengeData \in ReplayChallengeDatas,
        ok \in BOOLEAN : challenge(c, challengeData, ok)
  \/ Tick

\* An adapter built by initializeSiweAdapter from any configuration, then
\* one validation and the challenges.
SpecAdapter == InitAdapter /\ [][NextAdapter]_vars

\* module.validateOptions(adapterOptions), called by the host with any
\* object; it reads and writes nothing but its argument.
ValidateOptionsCall(adapterOptions) ==
  /\ ~optionsCheck.called
  /\ optionsCheck' = [called |-> TRUE, adapterOptions |-> adapterOptions,
                      error |-> validateOptions(adapterOptions)]
  /\ UNCHANGED <<now, options, store, nextId, val, chal, sweep, saved,
                 consumed>>

\* Option objects given to validateOptions: every field well-formed or
\* malformed in each way the checks tell apart (empty, of another type,
\* missing, zero, negative, NaN), a module that is a SiweAdapter or not, and
\* an object without `options`.
DomainValues == {Str("example.com"), Str(""), Num(1), Undefined}
StatementValues == {Str("Sign in"), Str(""), Undefined}
VersionValues == {Str("1"), Str(""), Num(1)}
PreventReplayValues == {Bool(TRUE), Bool(FALSE), Str("true"), Undefined}
ValidityValues == {Num(1), Num(0), Num(-1), NaN, Str("60000"), Undefined}

SiweOptionsObjects ==
  [domain : DomainValues, statement : StatementValues,
   version : VersionValues, preventReplay : PreventReplayValues,
   messageValidityInMs : ValidityValues]

AdapterOptionsObjects ==
  [hasOptions : {TRUE}, options : SiweOptionsObjects,
   module : {"SiweAdapter", "other"}]
  \cup {[hasOptions |-> FALSE,
          options |-> SiweOptionsObject(InitOptions(TRUE, 1)),
          module |-> "SiweAdapter"]}

NextOptions ==
  \E adapterOptions \in AdapterOptionsObjects :
    ValidateOptionsCall(adapterOptions)

\* validateOptions applied to every option object.
SpecOptions == Init /\ [][NextOptions]_vars

\* ------------------------------------------------------------ properties

Done(v) == val[v].pc = "done"

\* The nonce's row was in the store and unexpired when the query ran.
SawLive(v) == val[v].situation = "live"

\* C1: with preventReplay, of the validateAuthData calls that present the
\* same valid proof for the same issued, unexpired nonce, exactly one
\* succeeds and every other one is rejected with 'Message expired'.  Stated
\* for any two of the calls, once both have returned, when the store was
\* reachable throughout (no query.first failed, no destroy of a row that
\* was present failed): one succeeded and the other was rejected with
\* 'Message expired'.
C1_ExactlyOneSucceeds ==
  options.preventReplay =>
    \A v, w \in Validations :
      (/\ v # w /\ Done(v) /\ Done(w)
       /\ val[v].authData = val[w].authData
       /\ val[v].verifyResult = VALID /\ val[w].verifyResult = VALID
       /\ SawLive(v) /\ SawLive(w)
       /\ {val[v].storeError, val[w].storeError} \cap {"first", "destroy"} = {})
      => \/ val[v].outcome = Success /\ val[w].outcome = MessageExpired
         \/ val[w].outcome = Success /\ val[v].outcome = MessageExpired

\* C2 as stated: with preventReplay, a validateAuthData call that starts
\* after a call with the same proof has returned is always rejected with
\* 'Message expired'.
C2_SecondAlwaysExpired ==
  options.preventReplay =>
    \A v \in Validations :
      (Done(v) /\ val[v].replayOf # None) => val[v].outcome = MessageExpired

\* C2: with preventReplay, of two validateAuthData calls with the same proof,
\* the second starting after the first has returned, at most one succeeds:
\* after a call that succeeded, the second call is always rejected, and with
\* 'Message expired' whenever the verifier accepts the proof again and the
\* store lookup does not fail.
C2_ReplayRejected ==
  options.preventReplay =>
    \A v \in Validations :
      (Done(v) /\ val[v].replayOf = "accepted") =>
        /\ val[v].outcome # Success
        /\ (val[v].verifyResult = VALID /\ val[v].storeError = None)
             => val[v].outcome = MessageExpired

C2_Witness ==
  /\ options.preventReplay
  /\ \E v \in Validations :
       /\ Done(v) /\ val[v].replayOf = "accepted"
       /\ val[v].verifyResult = VALID
       /\ val[v].outcome = MessageExpired

\* C3: with preventReplay, challenge returns a nonce or a message to the
\* caller only after the row for that nonce has been created in the Nonce
\* table; when the save fails, challenge fails and returns no challenge.
C3_NoChallengeWithoutRecord ==
  options.preventReplay =>
    \A c \in Challenges :
      /\ chal[c].response # NoResponse =>
           /\ chal[c].response.nonce = chal[c].nonce
           /\ chal[c].nonce \in saved
           /\ chal[c].error = None
      /\ (chal[c].pc = "done" /\ chal[c].nonce \notin saved) =>
           /\ chal[c].response = NoResponse
           /\ chal[c].error # None

C3_Witness ==
  /\ options.preventReplay
  /\ \E c \in Challenges :
       /\ chal[c].response.kind = "message"
       /\ \E row \in store : row.nonce = chal[c].response.nonce

\* C4: with preventReplay, validateAuthData succeeds for a nonce only if,
\* when its lookup ran, the Nonce table held a row for that nonce that an
\* earlier challenge had created, that no validation had consumed, and whose
\* expiration was later than the query's date.
C4_SuccessOnlyForLiveRecord ==
  options.preventReplay =>
    \A v \in Validations :
      (Done(v) /\ val[v].outcome = Success) =>
        /\ SawLive(v)
        /\ val[v].authData.nonce \in saved
        /\ \E c \in Challenges :
             /\ chal[c].nonce = val[v].authData.nonce
             /\ chal[c].response # NoResponse

C4_Witness ==
  /\ options.preventReplay
  /\ \E v \in Validations :
       Done(v) /\ val[v].outcome = Success /\ SawLive(v)

\* C5 as stated: whenever validateAuthData accepts a proof, the address
\* claimed in authData is the address of the signed message that the
\* verifier checked.
C5_AcceptedAddressIsVerified ==
  \A v \in Validations :
    (Done(v) /\ val[v].outcome = Success) =>
      val[v].authData.address = val[v].authData.message.address

\* The binding fields of the parsed message, compared with the configuration.
DomainDiffers(v) == val[v].authData.message.domain # options.domain
StatementDiffers(v) == val[v].authData.message.statement # options.statement
VersionDiffers(v) == val[v].authData.message.version # options.version
Started(v) == val[v].pc # "idle"
Parsed(v) == Started(v) /\ val[v].authData.message.wellFormed

\* C6: whenever the parsed domain, statement or version differs from the
\* configured value, validateAuthData rejects without invoking the
\* signature verifier: verify is called only for a message whose three
\* binding fields equal the configuration.
C6_BindingBeforeVerify ==
  \A v \in Validations :
    /\ val[v].verifyCalled =>
         ~DomainDiffers(v) /\ ~StatementDiffers(v) /\ ~VersionDiffers(v)
    /\ (Parsed(v) /\ (DomainDiffers(v) \/ StatementDiffers(v)
                        \/ VersionDiffers(v))) =>
         /\ Done(v)
         /\ val[v].verifyResult = None
         /\ val[v].outcome \in {InvalidDomain, InvalidStatement,
                                InvalidVersion}

C6_Witness ==
  \E v \in Validations :
    /\ Parsed(v) /\ ~DomainDiffers(v) /\ StatementDiffers(v)
    /\ Done(v) /\ ~val[v].verifyCalled
    /\ val[v].outcome = InvalidStatement

\* C7: the binding check compares domain, then statement, then version and
\* rejects with the reason of the first field that differs; it passes
\* exactly when all three equal the configuration.
C7_FirstMismatchDecides ==
  \A v \in Validations :
    (Parsed(v) /\ Done(v)) =>
      IF DomainDiffers(v) THEN val[v].outcome = InvalidDomain
      ELSE IF StatementDiffers(v) THEN val[v].outcome = InvalidStatement
      ELSE IF VersionDiffers(v) THEN val[v].outcome = InvalidVersion
      ELSE val[v].outcome \notin {InvalidDomain, InvalidStatement,
                                  InvalidVersion}

C7_Witness ==
  \E v \in Validations :
    /\ Parsed(v) /\ Done(v)
    /\ DomainDiffers(v) /\ StatementDiffers(v) /\ VersionDiffers(v)
    /\ val[v].outcome = InvalidDomain

\* C8: a row whose expiration equals the date of the query is treated as
\* expired: the lookup accepts a row only when its expiration is strictly
\* later than the date, and otherwise the call is rejected with 'Message
\* expired' (unless the store call itself fails).
C8_StrictExpiration ==
  options.preventReplay =>
    \A v \in Validations :
      /\ val[v].pc = "destroy" => SawLive(v)
      /\ val[v].situation \in {"expires now", "expired"} =>
           /\ Done(v)
           /\ val[v].outcome # Success
           /\ val[v].storeError = None => val[v].outcome = MessageExpired

C8_Witness ==
  /\ options.preventReplay
  /\ \E v \in Validations :
       /\ Done(v) /\ val[v].situation = "expires now"
       /\ val[v].outcome = MessageExpired

\* The lookup ran, for a proof the verifier accepted, and the nonce was
\* never issued, already consumed, or expired.
Unusable(v) ==
  /\ Done(v)
  /\ val[v].verifyResult = VALID
  /\ val[v].storeError = None
  /\ val[v].situation \in {"never issued", "consumed", "expires now",
                           "expired"}

\* C9: for a proof that passes the binding check and the verifier, with
\* preventReplay, the caller sees the same outcome, 'Message expired',
\* whether the nonce was never issued, was already consumed or has expired:
\* any two such calls end in the same outcome.
C9_SameOutcomeForUnusableNonce ==
  options.preventReplay =>
    \A v, w \in Validations :
      (Unusable(v) /\ Unusable(w)) =>
        /\ val[v].outcome = val[w].outcome
        /\ val[v].outcome = MessageExpired

C9_Witness ==
  /\ options.preventReplay
  /\ \E v, w \in Validations :
       /\ Unusable(v) /\ Unusable(w)
       /\ val[v].situation = "never issued"
       /\ val[w].situation \in {"consumed", "expires now", "expired"}

\* C10 as stated: a failure of the verifier is mapped only to 'Invalid
\* signature' or to 'Auth failed unknown error', and 'Message expired' is
\* produced only when the lookup finds no row.
C10_ExpiredOnlyFromLookup ==
  \A v \in Validations :
    Done(v) =>
      /\ (val[v].verifyCalled /\ val[v].verifyResult # VALID) =>
           val[v].outcome \in {InvalidSignature, UnknownError}
      /\ val[v].outcome = MessageExpired =>
           val[v].situation \notin {None, "live"}

\* C10: the value the verifier rejects with is mapped to 'Message expired'
\* when it is SiweErrorType.EXPIRED_MESSAGE, to 'Invalid signature' when it
\* is SiweErrorType.INVALID_SIGNATURE and to 'Auth failed unknown error'
\* otherwise; 'Message expired' is produced only when the verifier rejects
\* with EXPIRED_MESSAGE or the lookup finds no row.
C10_VerifierFailureMapping ==
  \A v \in Validations :
    Done(v) =>
      /\ (val[v].verifyCalled /\ val[v].verifyResult # VALID) =>
           /\ val[v].situation = None
           /\ val[v].outcome =
                IF val[v].verifyResult = EXPIRED_MESSAGE THEN MessageExpired
                ELSE IF val[v].verifyResult = INVALID_SIGNATURE
                THEN InvalidSignature
                ELSE UnknownError
      /\ val[v].outcome = MessageExpired =>
           \/ val[v].verifyResult = EXPIRED_MESSAGE
           \/ /\ val[v].verifyResult = VALID
              /\ val[v].situation \notin {None, "live"}
              /\ val[v].storeError = None

C10_Witness ==
  \E v \in Validations :
    /\ Done(v) /\ val[v].verifyCalled
    /\ val[v].verifyResult = EXPIRED_MESSAGE
    /\ val[v].outcome = MessageExpired

\* C11 as stated: every validateAuthData invocation that has returned ended
\* in exactly one of seven outcomes, success or a rejection with one of
\* 'Invalid domain', 'Invalid statement', 'Invalid version', 'Invalid
\* signature', 'Message expired', 'Auth failed unknown error'; an invocation
\* that has not returned has no outcome.
C11_OneOfSevenOutcomes ==
  \A v \in Validations :
    IF Done(v)
    THEN val[v].outcome \in {Success, InvalidDomain, InvalidStatement,
                             InvalidVersion, InvalidSignature, MessageExpired,
                             UnknownError}
    ELSE val[v].outcome = None

\* C12: with preventReplay false, challenge and validateAuthData make no
\* call to the Nonce table (no save, no query.first, no destroy), so the
\* table stays as it was, and a proof that passes the binding check and the
\* verifier is accepted every time it is presented.
C12_NoStoreUseWithoutReplayGuard ==
  ~options.preventReplay =>
    /\ store = {} /\ saved = {} /\ consumed = {}
    /\ \A v \in Validations :
         /\ val[v].pc \notin {"lookup", "destroy"}
         /\ val[v].situation = None
         /\ val[v].storeError = None
         /\ (Done(v) /\ val[v].verifyResult = VALID) =>
              val[v].outcome = Success
    /\ \A c \in Challenges : chal[c].pc = "done" => chal[c].error = None

C12_Witness ==
  /\ ~options.preventReplay
  /\ \E c \in Challenges : chal[c].response.kind = "message"
  /\ \E v \in Validations :
       /\ Done(v) /\ val[v].replayOf = "accepted"
       /\ val[v].verifyResult = VALID
       /\ val[v].outcome = Success

\* The option fields as the configuration contract describes them.
NonEmptyString(x) == x.typeof = "string" /\ x.string # ""
IsBoolean(x) == x.typeof = "boolean"
PositiveNumber(x) == x.typeof = "number" /\ ~x.isNaN /\ x.number > 0

MalformedFields(siweOptions) ==
  (IF NonEmptyString(siweOptions.domain) THEN {} ELSE {"domain"})
  \cup (IF NonEmptyString(siweOptions.statement) THEN {} ELSE {"statement"})
  \cup (IF NonEmptyString(siweOptions.version) THEN {} ELSE {"version"})
  \cup (IF IsBoolean(siweOptions.preventReplay)
        THEN {} ELSE {"preventReplay"})
  \cup (IF PositiveNumber(siweOptions.messageValidityInMs)
        THEN {} ELSE {"messageValidityInMs"})

ErrorNaming(field) ==
  IF field = "domain" THEN "Invalid or missing domain"
  ELSE IF field = "statement" THEN "Invalid or missing statement"
  ELSE IF field = "version" THEN "Invalid or missing version"
  ELSE IF field = "preventReplay" THEN "Invalid or missing preventReplay flag"
  ELSE "Invalid or missing message validity time"

\* C13 as stated: validateOptions, given the options of an adapter (an
\* options object and a SiweAdapter module), returns when domain, statement
\* and version are non-empty strings, preventReplay is a boolean and
\* messageValidityInMs is a positive number, and when exactly one of the
\* five fields is malformed it throws the error that names that field.
C13_ValidateOptionsNamesTheField ==
  (/\ optionsCheck.called
   /\ optionsCheck.adapterOptions.hasOptions
   /\ optionsCheck.adapterOptions.module = "SiweAdapter")
  => LET malformed == MalformedFields(optionsCheck.adapterOptions.options)
     IN /\ malformed = {} => optionsCheck.error = None
        /\ \A field \in malformed :
             malformed = {field} => optionsCheck.error = ErrorNaming(field)

\* C14 as stated: an adapter whose configuration validateOptions rejects
\* never handles a request: every challenge and every validateAuthData call
\* that was processed ran on an adapter built from a configuration that
\* validateOptions accepts.
C14_InvalidConfigurationHandlesNothing ==
  (\/ \E c \in Challenges : chal[c].pc # "idle"
   \/ \E v \in Validations : val[v].pc # "idle")
  => validateOptions(initializeSiweAdapter(options)) = None

\* The request fields as the challenge contract describes them.
FullMessageRequest(c) ==
  chal[c].pc = "done" /\ chal[c].challengeData.responseType = "message"
PositiveInteger(chainId) == chainId.isInteger /\ chainId.value > 0
WellFormedAddress(address) == address # "not an address"
RequestErrors == {"Invalid chainId", "Invalid Ethereum address",
                  "URI is required"}

\* C15: for a request with responseType "message", challenge throws
\* 'Invalid chainId' when chainId is not a positive integer, else 'Invalid
\* Ethereum address' when the address is malformed, else 'URI is required'
\* when the uri is empty, in that order, before any row is saved; otherwise
\* it throws none of the three.
C15_RequestValidationOrder ==
  \A c \in Challenges :
    FullMessageRequest(c) =>
      LET challengeData == chal[c].challengeData
      IN IF ~PositiveInteger(challengeData.chainId)
         THEN chal[c].error = "Invalid chainId" /\ chal[c].nonce \notin saved
         ELSE IF ~WellFormedAddress(challengeData.address)
         THEN /\ chal[c].error = "Invalid Ethereum address"
              /\ chal[c].nonce \notin saved
         ELSE IF challengeData.uri = ""
         THEN chal[c].error = "URI is required" /\ chal[c].nonce \notin saved
         ELSE chal[c].error \notin RequestErrors

C15_Witness ==
  \E c \in Challenges :
    /\ FullMessageRequest(c)
    /\ ~PositiveInteger(chal[c].challengeData.chainId)
    /\ ~WellFormedAddress(chal[c].challengeData.address)
    /\ chal[c].challengeData.uri = ""
    /\ chal[c].error = "Invalid chainId"

\* C16 as stated: every challenge response that carries a composed message
\* was produced for a request whose chainId, address and uri are valid,
\* whatever responseType led to the message response (an absent one and
\* "siwe-message" included).
C16_MessageOnlyForValidatedRequest ==
  \A c \in Challenges :
    chal[c].response.kind = "message" =>
      /\ PositiveInteger(chal[c].challengeData.chainId)
      /\ WellFormedAddress(chal[c].challengeData.address)
      /\ chal[c].challengeData.uri # ""

\* The expiration a response carries: its own field, or the Expiration Time
\* line of its message.
ReturnedExpiration(response) ==
  IF response.kind = "message" THEN response.message.expirationTime
  ELSE response.expirationTime
ReturnedNonces(response) ==
  IF response.kind = "message" THEN {response.nonce, response.message.nonce}
  ELSE {response.nonce}

\* C17: with preventReplay, the row a challenge call creates carries the
\* nonce and the expiration that the call returns (in the nonce-expiration
\* response, or in the composed message), and that expiration is the time
\* of the call plus messageValidityInMs.
C17_RecordMatchesResponse ==
  options.preventReplay =>
    /\ \A c \in Challenges :
         chal[c].response # NoResponse =>
           \E row \in store :
             /\ ReturnedNonces(chal[c].response) = {row.nonce}
             /\ ReturnedExpiration(chal[c].response)
                  = toISOString(row.expirationTime)
             /\ row.expirationTime
                  = chal[c].issuedAt + options.messageValidityInMs
    /\ \A row \in store :
         \E c \in Challenges :
           /\ chal[c].nonce = row.nonce
           /\ row.expirationTime
                = chal[c].issuedAt + options.messageValidityInMs

C17_Witness ==
  /\ options.preventReplay
  /\ \E c \in Challenges :
       /\ chal[c].issuedAt > 0
       /\ chal[c].response.kind = "nonce-expiration"
       /\ \E row \in store :
            /\ row.nonce = chal[c].response.nonce
            /\ toISOString(row.expirationTime)
                 = chal[c].response.expirationTime

C19_SweepNeverFailsAValidation ==
  options.preventReplay =>
    \A v \in Validations :
      (/\ Done(v) /\ SawLive(v)
       /\ val[v].storeError \notin {"first", "destroy"})
      => val[v].outcome = Success

\* The Nonce table holds a row for nonce n.
Stored(n) == \E row \in store : row.nonce = n

\* C20: every row that challenge writes is eventually absent from the Nonce
\* table, when time advances and cleanupNonceTable keeps running: a row
\* that no validation consumes is deleted by a sweep after its expiration.
C20_EveryRecordEventuallyAbsent ==
  \A n \in NonceValues : Stored(n) ~> ~Stored(n)

\* A row was written, expired without being consumed, and a sweep has
\* deleted it.
C20_Witness ==
  \E c \in Challenges :
    /\ chal[c].nonce \in saved
    /\ chal[c].nonce \notin consumed
    /\ ~Stored(chal[c].nonce)
    /\ now > chal[c].expirationTime

\* The rows of nonce n that are in the table and unexpired.
LiveRows(n) ==
  {row \in store : row.nonce = n /\ row.expirationTime > now}

\* C21: in every reachable state of the Nonce table, after any sequence of
\* challenge, validateAuthData and cleanupNonceTable calls, each nonce has
\* at most one row that is in the table and unexpired.
C21_AtMostOneLiveRowPerNonce ==
  \A n \in NonceValues : Cardinality(LiveRows(n)) <= 1

C21_Witness ==
  \E n, m \in NonceValues :
    /\ n # m
    /\ Cardinality(LiveRows(n)) = 1
    /\ Cardinality(LiveRows(m)) = 1

C23_LookupAndDeleteAtomic ==
  options.preventReplay =>
    \A v \in Validations :
      val[v].pc = "destroy" =>
        \E row \in store : row.objectId = val[v].nonceObject

\* C25: with preventReplay, validateAuthData never succeeds when query.first
\* or the destroy of the row it found failed: a failed store call ends the
\* call with 'Auth failed unknown error', and after a success the row of
\* the nonce has been deleted.
C25_NoSuccessOnStoreFailure ==
  options.preventReplay =>
    \A v \in Validations :
      Done(v) =>
        /\ val[v].storeError # None => val[v].outcome = UnknownError
        /\ val[v].outcome = Success =>
             /\ val[v].storeError = None
             /\ SawLive(v)
             /\ val[v].authData.nonce \in consumed
             /\ ~Stored(val[v].authData.nonce)

C25_Witness ==
  /\ options.preventReplay
  /\ \E v, w \in Validations :
       /\ Done(v) /\ val[v].storeError = "destroy"
       /\ val[v].outcome = UnknownError
       /\ Done(w) /\ val[w].storeError = "first"
       /\ val[w].outcome = UnknownError

\* C26: a challenge request with responseType "message" that fails the
\* request validation (chainId, address or uri) creates no row: the checks
\* run before the save, and the table is as it was.
C26_NoRecordOnInvalidRequest ==
  /\ \A c \in Challenges :
       chal[c].error \in RequestErrors =>
         /\ chal[c].challengeData.responseType = "message"
         /\ chal[c].nonce \notin saved
         /\ ~Stored(chal[c].nonce)
         /\ chal[c].response = NoResponse
  /\ \A row \in store :
       \E c \in Challenges :
         chal[c].nonce = row.nonce /\ chal[c].error \notin RequestErrors

C26_Witness ==
  /\ options.preventReplay
  /\ store = {}
  /\ \E c \in Challenges :
       /\ FullMessageRequest(c)
       /\ PositiveInteger(chal[c].challengeData.chainId)
       /\ WellFormedAddress(chal[c].challengeData.address)
       /\ chal[c].error = "URI is required"

\* Rejections for a binding mismatch or a failed signature verification.
BindingOrSignatureRejections ==
  {InvalidDomain, InvalidStatement, InvalidVersion, InvalidSignature}
RejectedEarly(v) ==
  Done(v) /\ val[v].outcome \in BindingOrSignatureRejections

\* C24: a validateAuthData call rejected for a binding mismatch or for a
\* failed signature verification has made no call to the Nonce table and
\* leaves it unchanged: as long as every call made so far was rejected in
\* that way, every row that was saved is still in the table, so the row of
\* the claimed nonce is not consumed.
C24_RejectionLeavesStore ==
  /\ \A v \in Validations :
       RejectedEarly(v) =>
         /\ val[v].situation = None
         /\ val[v].storeError = None
         /\ val[v].nonceObject = 0
  /\ (\A v \in Validations : val[v].pc = "idle" \/ RejectedEarly(v)) =>
       /\ consumed = {}
       /\ \A n \in saved : Stored(n)

\* After a rejected call for a nonce, a later call with the valid proof
\* for the same nonce has succeeded.
C24_Witness ==
  /\ options.preventReplay
  /\ RejectedEarly(1)
  /\ val[1].outcome = InvalidSignature
  /\ Done(2)
  /\ val[2].authData.nonce = val[1].authData.nonce
  /\ val[2].outcome = Success
  /\ SawLive(2)
====
